---- MODULE Spec2Model ----
(***************************************************************************)
(* The view data engine of opencensus/stats/internal: ViewDataImpl, its    *)
(* construction from a ViewDescriptor, Add, and the interval-to-export     *)
(* snapshot constructor.  Time is counted in whole sub-bucket intervals of *)
(* the interval ring; UnixEpoch is tick 0.  Recorded values are small      *)
(* integers, which double arithmetic adds exactly.                         *)
(***************************************************************************)
EXTENDS Integers, Sequences, FiniteSets, Bags

\* ---------------------------------------------------------------- bounds
MaxAdds == 3     \* Add calls in one run
MaxTime == 3     \* timestamps range over UnixEpoch .. MaxTime
Duration == 2    \* AggregationWindow::Interval(duration), in sub-bucket ticks

\* absl::UnixEpoch(), also the value of a default-constructed absl::Time
UnixEpoch == 0

Times == UnixEpoch..MaxTime
StartTimes == {UnixEpoch, UnixEpoch + 1}
Tags == {<<"value1", "value2a">>, <<"value1", "value2b">>}
Values == {5, 10}
\* BucketBoundaries::Explicit({10})
Boundaries == <<10>>

Aggregations == {"kSum", "kCount", "kDistribution"}
Windows == {"kCumulative", "kInterval"}

VARIABLES
    aggregation_,         \* Aggregation::Type of the view
    aggregation_window_,  \* AggregationWindow::Type of the view
    type_,                \* ViewDataImpl::Type, the active member of the union
    start_time_,
    end_time_,
    double_data_,         \* DataMap<double>
    int_data_,            \* DataMap<int64_t>
    distribution_data_,   \* DataMap<Distribution>
    interval_data_,       \* DataMap<IntervalStatsObject>
    adds,                 \* history: the bag of (value, tag, now) passed to Add
    export_data,          \* the last snapshot taken of the view, if still alive
    registered_descriptors_,  \* MeasureRegistryImpl: the MeasureDescriptors
    id_map_,              \* MeasureRegistryImpl: measure name -> id
    mu_,                  \* MeasureRegistryImpl: the reader/writer mutex
    threads,              \* the call each thread is making on the registry
    ops,                  \* registry calls begun so far
    ndebug,               \* the build defines NDEBUG: ABSL_ASSERT is a no-op
    copy_data,            \* the last copy made of the view, if still alive
    cerr,                 \* what was written to std::cerr
    process,              \* "running", or how the process ended
    packing               \* an id being packed and taken apart again

view_vars == <<aggregation_, aggregation_window_, type_, start_time_, end_time_,
               double_data_, int_data_, distribution_data_, interval_data_,
               adds, export_data>>

registry_vars == <<registered_descriptors_, id_map_, mu_, threads, ops>>

copy_vars == <<ndebug, copy_data, cerr, process>>

vars == <<view_vars, registry_vars, copy_vars, packing>>

source_vars == <<aggregation_, aggregation_window_, type_, start_time_,
                 end_time_, double_data_, int_data_, distribution_data_,
                 interval_data_>>

Max(a, b) == IF a >= b THEN a ELSE b
Min(a, b) == IF a <= b THEN a ELSE b

EmptyMap == [k \in {} |-> 0]

\* m[k] = v, inserting the row when it is absent
Put(m, k, v) == [x \in (DOMAIN m) \cup {k} |-> IF x = k THEN v ELSE m[x]]

\* operator[] of the map: the row, value-initialised when absent
At(m, k) == IF k \in DOMAIN m THEN m[k] ELSE 0

\* ------------------------------------------------- BucketBoundaries
\* The number of buckets of Explicit(boundaries): one more than boundaries.
num_buckets == Len(Boundaries) + 1

\* The index of the bucket of `value`: the number of boundaries <= value
\* (Explicit({10}): 5 -> bucket 0, 10 and 15 -> bucket 1).
BucketForValue(value) ==
    Cardinality({i \in 1..Len(Boundaries) : Boundaries[i] <= value})

\* ------------------------------------------------- Distribution
\* min and max are doubles that may be infinite.
PosInf == [inf |-> 1, v |-> 0]
NegInf == [inf |-> -1, v |-> 0]
Fin(x) == [inf |-> 0, v |-> x]

ExtMin(a, b) ==
    IF a.inf = -1 \/ b.inf = 1 THEN a
    ELSE IF b.inf = -1 \/ a.inf = 1 THEN b
    ELSE IF a.v <= b.v THEN a ELSE b

ExtMax(a, b) ==
    IF a.inf = 1 \/ b.inf = -1 THEN a
    ELSE IF b.inf = 1 \/ a.inf = -1 THEN b
    ELSE IF a.v >= b.v THEN a ELSE b

\* Distribution(&bucket_boundaries): the empty accumulator.  The mean and the
\* sum of squared deviations are kept exactly as the integers they are
\* computed from: sum_ = mean * count, sum_sq_ = the sum of the squares.
Distribution ==
    [count_ |-> 0, sum_ |-> 0, sum_sq_ |-> 0, min_ |-> PosInf, max_ |-> NegInf,
     bucket_counts_ |-> [b \in 0..(num_buckets - 1) |-> 0]]

\* Distribution::Add(value)
DistributionAdd(d, value) ==
    [count_ |-> d.count_ + 1,
     sum_ |-> d.sum_ + value,
     sum_sq_ |-> d.sum_sq_ + value * value,
     min_ |-> ExtMin(d.min_, Fin(value)),
     max_ |-> ExtMax(d.max_, Fin(value)),
     bucket_counts_ |->
        [d.bucket_counts_ EXCEPT ![BucketForValue(value)] = @ + 1]]

\* mean() = m and sum_of_squared_deviation() = s, without division
MeanIs(d, m) == IF d.count_ = 0 THEN m = 0 ELSE d.sum_ = m * d.count_
SsdIs(d, s) ==
    IF d.count_ = 0 THEN s = 0
    ELSE d.count_ * d.sum_sq_ - d.sum_ * d.sum_ = s * d.count_

\* ------------------------------------------------- IntervalStatsObject
\* A ring of sub-buckets, each of num_stats doubles.  buckets[a] is the
\* sub-bucket of tick cur - a; the ring keeps the ticks cur - Duration .. cur.
ZeroBucket(num_stats) == [i \in 1..num_stats |-> 0]

\* IntervalStatsObject(num_stats, duration, now)
NewStatsObject(num_stats, now) ==
    [cur |-> now, buckets |-> [a \in 0..Duration |-> ZeroBucket(num_stats)]]

\* The ring advanced to `now` when `now` is past its current sub-bucket:
\* sub-buckets that left the window are dropped, new ones are zero.
Shift(obj, now) ==
    IF now > obj.cur
    THEN [cur |-> now,
          buckets |-> [a \in 0..Duration |->
              IF a >= now - obj.cur THEN obj.buckets[a - (now - obj.cur)]
              ELSE ZeroBucket(Len(obj.buckets[0]))]]
    ELSE obj

\* MutableCurrentBucket(now)[0] += delta
AddToCurrentBucket(obj, delta, now) ==
    LET s == Shift(obj, now)
    IN  [s EXCEPT !.buckets[0][1] = @ + delta]

\* AddToDistribution(value, histogram_bucket, now): the current sub-bucket
\* holds count, sum, sum of squares, min, max, then the bucket counts.
AddToDistribution(obj, value, histogram_bucket, now) ==
    LET s == Shift(obj, now)
        b == s.buckets[0]
        nb == [i \in 1..Len(b) |->
                 IF i = 1 THEN b[1] + 1
                 ELSE IF i = 2 THEN b[2] + value
                 ELSE IF i = 3 THEN b[3] + value * value
                 ELSE IF i = 4 THEN (IF b[1] = 0 THEN value ELSE Min(b[4], value))
                 ELSE IF i = 5 THEN (IF b[1] = 0 THEN value ELSE Max(b[5], value))
                 ELSE IF i = 6 + histogram_bucket THEN b[i] + 1
                 ELSE b[i]]
    IN  [s EXCEPT !.buckets[0] = nb]

RECURSIVE SumSlot(_, _, _)
SumSlot(buckets, ages, i) ==
    IF ages = {} THEN 0
    ELSE LET a == CHOOSE x \in ages : TRUE
         IN  buckets[a][i] + SumSlot(buckets, ages \ {a}, i)

\* SumInto(out, now): out[0] += the windowed sum, the sum of the sub-buckets
\* the ring holds once advanced to `now`.  The object itself is not changed.
SumInto(obj, out, now) ==
    out + SumSlot(Shift(obj, now).buckets, 0..Duration, 1)

\* DistributionInto(&count, &mean, &ssd, &min, &max, bucket_counts, now): the
\* non-empty sub-buckets of the window merged into the distribution `d`.
DistributionInto(obj, d, now) ==
    LET s == Shift(obj, now)
        ages == {a \in 0..Duration : s.buckets[a][1] > 0}
        lo == IF ages = {} THEN d.min_
              ELSE ExtMin(d.min_, Fin(CHOOSE m \in {s.buckets[a][4] : a \in ages} :
                       \A a \in ages : m <= s.buckets[a][4]))
        hi == IF ages = {} THEN d.max_
              ELSE ExtMax(d.max_, Fin(CHOOSE m \in {s.buckets[a][5] : a \in ages} :
                       \A a \in ages : m >= s.buckets[a][5]))
    IN  [count_ |-> d.count_ + SumSlot(s.buckets, ages, 1),
         sum_ |-> d.sum_ + SumSlot(s.buckets, ages, 2),
         sum_sq_ |-> d.sum_sq_ + SumSlot(s.buckets, ages, 3),
         min_ |-> lo,
         max_ |-> hi,
         bucket_counts_ |-> [b \in DOMAIN d.bucket_counts_ |->
             d.bucket_counts_[b] + SumSlot(s.buckets, ages, 6 + b)]]

\* ------------------------------------------------- MeasureRegistryImpl
Threads == {"t1", "t2"}
Names == {"latency", "bytes"}
Units == {"ms", "By"}
Descriptions == {"a measure"}
MeasureTypes == {"kDouble", "kInt64"}

\* The bits of a measure id: a 64-bit id is the set of the positions of its
\* one bits, the low index_bits of them the index.
index_bits == 32
valid_bit == 32
type_bit == 33

\* The one bits of a vector index (a size_t below 2^31).
Bits(n) == {b \in 0..30 : (n \div (2 ^ b)) % 2 = 1}

RECURSIVE BitsValue(_)
BitsValue(S) ==
    IF S = {} THEN 0
    ELSE LET b == CHOOSE x \in S : TRUE
         IN  2 ^ b + BitsValue(S \ {b})

\* CreateMeasureId(uint64_t index, bool is_valid, type) on the bits of
\* index: the index in the low bits, or-ed with the two flags.
CreateMeasureIdBits(index, is_valid, type) ==
    index \cup (IF is_valid THEN {valid_bit} ELSE {})
          \cup (IF type = "kInt64" THEN {type_bit} ELSE {})

\* CreateMeasureId(index, is_valid, type)
CreateMeasureId(index, is_valid, type) ==
    CreateMeasureIdBits(Bits(index), is_valid, type)

IdValid(id) == valid_bit \in id

\* Mutant of IndexMask: the mask is one bit too narrow.
IndexMaskNarrow(id) == {b \in id : b < index_bits - 1}

\* The low index_bits bits of the id.
IndexMask(id) == {b \in id : b < index_bits}

IdToIndex(id) == BitsValue(IndexMask(id))
IdToType(id) == IF type_bit \in id THEN "kInt64" ELSE "kDouble"

\* Measure<MeasureT>: the id and the static type of the handle.
Measure(id, T) == [id_ |-> id, T |-> T]
IsValid(measure) == IdValid(measure.id_)

MeasureDescriptor(name, units, description, type) ==
    [name |-> name, units |-> units, description |-> description, type |-> type]

\* static const MeasureDescriptor default_descriptor
default_descriptor == MeasureDescriptor("", "", "", "kDouble")

\* What a read past the end of registered_descriptors_ would return.
OutOfRange == MeasureDescriptor("<out of range>", "", "", "kDouble")

\* registered_descriptors_[i], i counted from 0
Element(vec, i) == IF i < Len(vec) THEN vec[i + 1] ELSE OutOfRange

NoThread == "none"
NoId == {}

NoMeasure == Measure(NoId, "kDouble")

\* A thread that is not inside a call; `handle` is what its last call returned.
IdleThread(handle) ==
    [pc |-> "idle", descriptor |-> default_descriptor, T |-> "kDouble",
     found |-> FALSE, id |-> NoId, measure |-> NoMeasure, handle |-> handle,
     result |-> default_descriptor]

\* No id is being packed.
PackingIdle ==
    packing = [step |-> "idle", index |-> {}, is_valid |-> FALSE,
               type |-> "kDouble", id |-> {}, out_index |-> {},
               out_valid |-> FALSE, out_type |-> "kDouble"]

\* The registry before any registration, no thread inside a call.
RegistryIdle ==
    /\ registered_descriptors_ = <<>>
    /\ id_map_ = EmptyMap
    /\ mu_ = [writer |-> NoThread, readers |-> {}]
    /\ threads = [t \in Threads |-> IdleThread(NoMeasure)]
    /\ ops = 0

\* ------------------------------------------------- ViewDataImpl
\* Mutant of TypeForDescriptor: the window is not looked at.
TypeForDescriptorNoWindow(aggregation, window) ==
    CASE aggregation = "kSum" -> "kDouble"
      [] aggregation = "kCount" -> "kInt64"
      [] aggregation = "kDistribution" -> "kDistribution"

\* TypeForDescriptor(const ViewDescriptor& descriptor)
TypeForDescriptor(aggregation, window) ==
    IF window = "kCumulative"
    THEN CASE aggregation = "kSum" -> "kDouble"
           [] aggregation = "kCount" -> "kInt64"
           [] aggregation = "kDistribution" -> "kDistribution"
    ELSE "kStatsObject"

\* end_time_ of a view just constructed from a descriptor: the constructor's
\* initialiser list names aggregation_, aggregation_window_, type_ and
\* start_time_ only, so end_time_ is a default-constructed absl::Time.
ConstructedEndTime(start_time) == UnixEpoch

NoExport == [valid |-> FALSE]

NoCopy == [valid |-> FALSE]

\* A build with assertions, a running process, no copy made and nothing
\* written to std::cerr.
CopyIdle ==
    /\ ndebug = FALSE
    /\ copy_data = NoCopy
    /\ cerr = <<>>
    /\ process = "running"

\* ViewDataImpl(absl::Time start_time, const ViewDescriptor& descriptor)
Init ==
    /\ aggregation_ \in Aggregations
    /\ aggregation_window_ \in Windows
    /\ type_ = TypeForDescriptor(aggregation_, aggregation_window_)
    /\ start_time_ \in StartTimes
    /\ end_time_ = ConstructedEndTime(start_time_)
    /\ double_data_ = EmptyMap
    /\ int_data_ = EmptyMap
    /\ distribution_data_ = EmptyMap
    /\ interval_data_ = EmptyMap
    /\ adds = EmptyBag
    /\ export_data = NoExport
    /\ RegistryIdle
    /\ CopyIdle
    /\ PackingIdle

\* end_time_ = std::max(end_time_, now)
AddEndTime(end_time, now) == Max(end_time, now)

\* Mutant of AddDouble: the row is assigned, not added to.
AddDoubleAssign(m, value, tag_values) == Put(m, tag_values, value)

\* case Type::kDouble: double_data_[tag_values] += value
AddDouble(m, value, tag_values) == Put(m, tag_values, At(m, tag_values) + value)

\* Mutant of AddInt64: the recorded value is added, not 1.
AddInt64Value(m, value, tag_values) == Put(m, tag_values, At(m, tag_values) + value)

\* case Type::kInt64: ++int_data_[tag_values]
AddInt64(m, value, tag_values) == Put(m, tag_values, At(m, tag_values) + 1)

\* Mutant of AddDistribution: a fresh Distribution is emplaced on every Add.
AddDistributionFresh(m, value, tag_values) ==
    Put(m, tag_values, DistributionAdd(Distribution, value))

\* case Type::kDistribution: find, emplace a fresh Distribution when absent,
\* then it->second.Add(value)
AddDistribution(m, value, tag_values) ==
    LET it == IF tag_values \in DOMAIN m THEN m[tag_values] ELSE Distribution
    IN  Put(m, tag_values, DistributionAdd(it, value))

\* Mutant of AddStatsObject: a Count view records the value, as a Sum view does.
AddStatsObjectValue(m, aggregation, value, tag_values, now) ==
    IF aggregation = "kDistribution"
    THEN LET it == IF tag_values \in DOMAIN m THEN m[tag_values]
                   ELSE NewStatsObject(num_buckets + 5, now)
         IN  Put(m, tag_values,
                 AddToDistribution(it, value, BucketForValue(value), now))
    ELSE LET it == IF tag_values \in DOMAIN m THEN m[tag_values]
                   ELSE NewStatsObject(1, now)
         IN  Put(m, tag_values, AddToCurrentBucket(it, value, now))

\* case Type::kStatsObject
AddStatsObject(m, aggregation, value, tag_values, now) ==
    IF aggregation = "kDistribution"
    THEN LET it == IF tag_values \in DOMAIN m THEN m[tag_values]
                   ELSE NewStatsObject(num_buckets + 5, now)
         IN  Put(m, tag_values,
                 AddToDistribution(it, value, BucketForValue(value), now))
    ELSE LET it == IF tag_values \in DOMAIN m THEN m[tag_values]
                   ELSE NewStatsObject(1, now)
         IN  IF aggregation = "kCount"
             THEN Put(m, tag_values, AddToCurrentBucket(it, 1, now))
             ELSE Put(m, tag_values, AddToCurrentBucket(it, value, now))

\* History only: whether an Add for the tag with a later timestamp came before.
LateAdd(tag_values, now) ==
    \E r \in BagToSet(adds) : r.tag = tag_values /\ r.now > now

\* void ViewDataImpl::Add(double value, tag_values, absl::Time now)
Add(value, tag_values, now) ==
    /\ BagCardinality(adds) < MaxAdds
    /\ export_data = NoExport
    /\ end_time_' = AddEndTime(end_time_, now)
    /\ double_data_' = IF type_ = "kDouble"
                       THEN AddDouble(double_data_, value, tag_values)
                       ELSE double_data_
    /\ int_data_' = IF type_ = "kInt64"
                    THEN AddInt64(int_data_, value, tag_values)
                    ELSE int_data_
    /\ distribution_data_' = IF type_ = "kDistribution"
                             THEN AddDistribution(distribution_data_, value, tag_values)
                             ELSE distribution_data_
    /\ interval_data_' = IF type_ = "kStatsObject"
                         THEN AddStatsObject(interval_data_, aggregation_, value,
                                             tag_values, now)
                         ELSE interval_data_
    /\ adds' = adds (+) SetToBag({[value |-> value, tag |-> tag_values, now |-> now,
                                   late |-> LateAdd(tag_values, now)]})
    /\ UNCHANGED <<aggregation_, aggregation_window_, type_, start_time_,
                   export_data>>
    /\ UNCHANGED <<registry_vars, copy_vars, packing>>

\* Mutant of SnapshotDoubleData: each row is summed as of its own last Add,
\* not as of `now`.
SnapshotDoubleDataStale(other_interval_data, now) ==
    [k \in DOMAIN other_interval_data |->
        SumInto(other_interval_data[k], 0, other_interval_data[k].cur)]

\* Mutant of SnapshotDoubleData: rows whose windowed sum is zero are left out.
SnapshotDoubleDataNonZero(other_interval_data, now) ==
    [k \in {x \in DOMAIN other_interval_data :
                SumInto(other_interval_data[x], 0, now) # 0} |->
        SumInto(other_interval_data[k], 0, now)]

\* The double_data_ of a Sum or Count snapshot: one row per row of the source.
SnapshotDoubleData(other_interval_data, now) ==
    [k \in DOMAIN other_interval_data |-> SumInto(other_interval_data[k], 0, now)]

\* Mutant of SnapshotDistributionData: each row is read as of its own last
\* Add, not as of `now`.
SnapshotDistributionDataStale(other_interval_data, now) ==
    [k \in DOMAIN other_interval_data |->
        DistributionInto(other_interval_data[k], Distribution,
                         other_interval_data[k].cur)]

\* The distribution_data_ of a Distribution snapshot.
SnapshotDistributionData(other_interval_data, now) ==
    [k \in DOMAIN other_interval_data |->
        DistributionInto(other_interval_data[k], Distribution, now)]

\* Mutant of SnapshotStartTime: the start time of the source is copied.
SnapshotStartTimeOfSource(other_start_time, now) == other_start_time

\* start_time_(std::max(other.start_time(), now - duration))
SnapshotStartTime(other_start_time, now) == Max(other_start_time, now - Duration)

\* end_time_(now)
SnapshotEndTime(other_end_time, now) == now

\* Mutant of SnapshotSource: the rows are read through the mutating
\* MutableCurrentBucket, which advances every ring to `now`.
SnapshotSourceAdvanced(other_interval_data, now) ==
    [k \in DOMAIN other_interval_data |-> Shift(other_interval_data[k], now)]

\* What the snapshot constructor leaves in `other`, which it takes by const
\* reference and reads through the const SumInto / DistributionInto.
SnapshotSource(other_interval_data, now) == other_interval_data

\* type_(other.aggregation().type() == kDistribution ? kDistribution : kDouble)
SnapshotType(aggregation) ==
    IF aggregation = "kDistribution" THEN "kDistribution" ELSE "kDouble"

\* ViewDataImpl(const ViewDataImpl& other, absl::Time now), applied to the
\* view when its window is an interval (ABSL_ASSERT of line 80).
Snapshot(now) ==
    /\ aggregation_window_ = "kInterval"
    /\ export_data = NoExport
    /\ export_data' =
        [valid |-> TRUE,
         now |-> now,
         aggregation_ |-> aggregation_,
         aggregation_window_ |-> aggregation_window_,
         type_ |-> SnapshotType(aggregation_),
         start_time_ |-> SnapshotStartTime(start_time_, now),
         end_time_ |-> SnapshotEndTime(end_time_, now),
         double_data_ |-> IF aggregation_ = "kDistribution" THEN EmptyMap
                          ELSE SnapshotDoubleData(interval_data_, now),
         distribution_data_ |-> IF aggregation_ = "kDistribution"
                                THEN SnapshotDistributionData(interval_data_, now)
                                ELSE EmptyMap]
    /\ interval_data_' = SnapshotSource(interval_data_, now)
    /\ UNCHANGED <<aggregation_, aggregation_window_, type_, start_time_,
                   end_time_, double_data_, int_data_, distribution_data_, adds>>
    /\ UNCHANGED <<registry_vars, copy_vars, packing>>

\* ~ViewDataImpl() of the snapshot: the exporter is done with it.
Release ==
    /\ export_data # NoExport
    /\ export_data' = NoExport
    /\ UNCHANGED <<source_vars, adds>>
    /\ UNCHANGED <<registry_vars, copy_vars, packing>>

Next ==
    \/ \E value \in Values, tag_values \in Tags, now \in Times :
          Add(value, tag_values, now)
    \/ \E now \in Times : Snapshot(now)
    \/ Release

Spec == Init /\ [][Next]_vars

\* ------------------------------------------------- copy and misuse
MaxDiagnostics == 1   \* lines written to std::cerr in one run
MaxCopyAdds == 2      \* Add calls in one run with copies

\* The view, as the `other` of a constructor.
This ==
    [aggregation_ |-> aggregation_, aggregation_window_ |-> aggregation_window_,
     type_ |-> type_, start_time_ |-> start_time_, end_time_ |-> end_time_,
     double_data_ |-> double_data_, int_data_ |-> int_data_,
     distribution_data_ |-> distribution_data_,
     interval_data_ |-> interval_data_]

CopyDiagnostic == "StatsObject ViewDataImpl cannot (and should not) be copied."
AssertionFailed == "Assertion failed"

\* Mutant of AbslAssert: the assertion is never evaluated.
AbslAssertIgnored(expr) == TRUE

\* ABSL_ASSERT(expr): execution goes on past it when expr holds, and when
\* the build defines NDEBUG, where the macro does not evaluate expr.
AbslAssert(expr) == expr \/ ndebug

\* A failed assertion is reported and the process aborts.
Abort(out) ==
    /\ cerr' = Append(out, AssertionFailed)
    /\ process' = "aborted"

\* Mutant of CopyEndTime: end_time_ is left out of the initialisers.
CopyEndTimeDefault(end_time) == UnixEpoch

\* end_time_(other.end_time_)
CopyEndTime(end_time) == end_time

\* Mutant of CopyMap: the map is constructed empty.
CopyMapEmpty(type, member, data) == EmptyMap

\* new (&m_) DataMap<T>(other.m_) in the case of the switch for `member`
CopyMap(type, member, data) == IF type = member THEN data ELSE EmptyMap

\* What the bytes of a union member that was never constructed, or that
\* hold another member, can look like when read as a map with these keys.
Indeterminate(keys) == {EmptyMap} \cup {[k \in keys |-> 0]}

\* ViewDataImpl(const ViewDataImpl& other): the initialisers and the switch,
\* with `unconstructed` what the storage of a kStatsObject copy holds.
CopyConstructor(other, unconstructed) ==
    [valid |-> TRUE,
     aggregation_ |-> other.aggregation_,
     aggregation_window_ |-> other.aggregation_window_,
     type_ |-> other.type_,
     start_time_ |-> other.start_time_,
     end_time_ |-> CopyEndTime(other.end_time_),
     double_data_ |-> CopyMap(other.type_, "kDouble", other.double_data_),
     int_data_ |-> CopyMap(other.type_, "kInt64", other.int_data_),
     distribution_data_ |->
         CopyMap(other.type_, "kDistribution", other.distribution_data_),
     interval_data_ |->
         IF other.type_ = "kStatsObject" THEN unconstructed ELSE EmptyMap,
     constructed |-> other.type_ # "kStatsObject"]

Running == process = "running"

\* ViewDataImpl copy(view)
Copy ==
    /\ Running
    /\ copy_data = NoCopy
    /\ export_data = NoExport
    /\ IF type_ = "kStatsObject"
       THEN /\ Len(cerr) < MaxDiagnostics
            /\ IF AbslAssert(FALSE)
               THEN /\ cerr' = Append(cerr, CopyDiagnostic)
                    /\ process' = "running"
                    /\ \E unconstructed \in Indeterminate(DOMAIN interval_data_) :
                          copy_data' = CopyConstructor(This, unconstructed)
               ELSE /\ Abort(Append(cerr, CopyDiagnostic))
                    /\ copy_data' = NoCopy
       ELSE /\ copy_data' = CopyConstructor(This, EmptyMap)
            /\ UNCHANGED <<cerr, process>>
    /\ UNCHANGED <<view_vars, registry_vars, ndebug, packing>>

\* ~ViewDataImpl() of the copy: the switch destroys the member type_ names;
\* destroying a map that was never constructed is undefined, it may go
\* unnoticed or end the process.
DestroyCopy ==
    /\ Running
    /\ copy_data # NoCopy
    /\ copy_data' = NoCopy
    /\ IF copy_data.constructed THEN process' = "running"
       ELSE process' \in {"running", "crashed"}
    /\ UNCHANGED <<view_vars, registry_vars, ndebug, cerr, packing>>

\* The keys of the map the view holds.
ActiveKeys ==
    DOMAIN double_data_ \cup DOMAIN int_data_ \cup DOMAIN distribution_data_
        \cup DOMAIN interval_data_

\* ViewDataImpl(const ViewDataImpl& other, absl::Time now) applied to a
\* Cumulative view. With assertions, line 80 aborts. With NDEBUG the loops
\* read other.interval_data() from a union that holds another map, which is
\* undefined: the process ends, or a snapshot with indeterminate rows exists.
\* The duration of a Cumulative window is infinite: start_time_ is the
\* source's.
SnapshotCumulative(now) ==
    /\ Running
    /\ aggregation_window_ = "kCumulative"
    /\ export_data = NoExport
    /\ copy_data = NoCopy
    /\ IF ~AbslAssert(aggregation_window_ = "kInterval")
       THEN /\ Abort(cerr)
            /\ export_data' = NoExport
       ELSE /\ cerr' = cerr
            /\ \/ process' = "crashed" /\ export_data' = NoExport
               \/ /\ process' = "running"
                  /\ \E rows \in Indeterminate(ActiveKeys) :
                        export_data' =
                            [valid |-> TRUE,
                             now |-> now,
                             aggregation_ |-> aggregation_,
                             aggregation_window_ |-> aggregation_window_,
                             type_ |-> SnapshotType(aggregation_),
                             start_time_ |-> start_time_,
                             end_time_ |-> SnapshotEndTime(end_time_, now),
                             double_data_ |->
                                 IF aggregation_ = "kDistribution" THEN EmptyMap
                                 ELSE rows,
                             distribution_data_ |->
                                 IF aggregation_ = "kDistribution"
                                 THEN [k \in DOMAIN rows |-> Distribution]
                                 ELSE EmptyMap]
    /\ UNCHANGED <<source_vars, adds, registry_vars, ndebug, copy_data, packing>>

\* A view of any descriptor in a build with or without assertions.
CopyInit ==
    /\ aggregation_ \in Aggregations
    /\ aggregation_window_ \in Windows
    /\ type_ = TypeForDescriptor(aggregation_, aggregation_window_)
    /\ start_time_ \in StartTimes
    /\ end_time_ = ConstructedEndTime(start_time_)
    /\ double_data_ = EmptyMap
    /\ int_data_ = EmptyMap
    /\ distribution_data_ = EmptyMap
    /\ interval_data_ = EmptyMap
    /\ adds = EmptyBag
    /\ export_data = NoExport
    /\ RegistryIdle
    /\ ndebug \in BOOLEAN
    /\ copy_data = NoCopy
    /\ cerr = <<>>
    /\ process = "running"
    /\ PackingIdle

\* The calls on a view while the process runs and no copy of it is held.
CopyAdd(value, tag_values, now) ==
    /\ Running
    /\ copy_data = NoCopy
    /\ BagCardinality(adds) < MaxCopyAdds
    /\ Add(value, tag_values, now)

CopySnapshot(now) == Running /\ copy_data = NoCopy /\ Snapshot(now)

CopyRelease == Running /\ Release

CopyNext ==
    \/ \E value \in Values, tag_values \in Tags, now \in Times :
          CopyAdd(value, tag_values, now)
    \/ \E now \in Times : CopySnapshot(now)
    \/ \E now \in Times : SnapshotCumulative(now)
    \/ CopyRelease
    \/ Copy
    \/ DestroyCopy

SpecCopy == CopyInit /\ [][CopyNext]_vars

\* ------------------------------------------------- registry operations
MaxOps == 3       \* registry calls in one run

\* absl::MutexLock l(&mu_): the writer waits for the lock to be free.
WriterLockFree(mu) == mu.writer = NoThread /\ mu.readers = {}

\* Mutant of ReaderLockFree: a reader does not wait for the writer.
ReaderLockNoWait(mu) == TRUE

\* absl::ReaderMutexLock l(&mu_): a reader waits while a writer holds mu_.
ReaderLockFree(mu) == mu.writer = NoThread

\* One step of thread t; the registry never touches a view.
Step(t, rec) ==
    /\ threads' = [threads EXCEPT ![t] = rec]
    /\ UNCHANGED <<view_vars, copy_vars, packing>>

\* RegisterDouble(name, units, description) / RegisterInt(...): the call,
\* before RegisterImpl takes mu_.
BeginRegister(t, name, units, description, T) ==
    /\ threads[t].pc = "idle"
    /\ ops < MaxOps
    /\ ops' = ops + 1
    /\ Step(t, [threads[t] EXCEPT
                  !.pc = "reg_lock",
                  !.descriptor = MeasureDescriptor(name, units, description, T),
                  !.T = T])
    /\ UNCHANGED <<registered_descriptors_, id_map_, mu_>>

RegisterLock(t) ==
    /\ threads[t].pc = "reg_lock"
    /\ WriterLockFree(mu_)
    /\ mu_' = [mu_ EXCEPT !.writer = t]
    /\ Step(t, [threads[t] EXCEPT !.pc = "reg_find"])
    /\ UNCHANGED <<registered_descriptors_, id_map_, ops>>

\* Mutant of RegisterFound: a known name is registered again.
RegisterFoundNever(map, name) == FALSE

\* Step 1 of the registration algorithm: the name is already in id_map_.
RegisterFound(map, name) == name \in DOMAIN map

RegisterFind(t) ==
    /\ threads[t].pc = "reg_find"
    /\ LET name == threads[t].descriptor.name
       IN  IF RegisterFound(id_map_, name)
           THEN Step(t, [threads[t] EXCEPT !.pc = "reg_unlock", !.found = TRUE,
                                           !.id = id_map_[name]])
           ELSE Step(t, [threads[t] EXCEPT !.pc = "reg_push"])
    /\ UNCHANGED <<registered_descriptors_, id_map_, mu_, ops>>

\* Step 2: append the descriptor to the descriptor list.
RegisterPush(t) ==
    /\ threads[t].pc = "reg_push"
    /\ registered_descriptors_' =
           Append(registered_descriptors_, threads[t].descriptor)
    /\ Step(t, [threads[t] EXCEPT !.pc = "reg_store"])
    /\ UNCHANGED <<id_map_, mu_, ops>>

\* Mutant of NewId: the id is packed with the double type whatever was asked.
NewIdDouble(descriptors, type) == CreateMeasureId(Len(descriptors) - 1, TRUE, "kDouble")

\* index = len - 1, id = create_id(index, valid = true, type)
NewId(descriptors, type) == CreateMeasureId(Len(descriptors) - 1, TRUE, type)

\* Step 2, continued: store name -> id.
RegisterStore(t) ==
    /\ threads[t].pc = "reg_store"
    /\ LET id == NewId(registered_descriptors_, threads[t].descriptor.type)
       IN  /\ id_map_' = Put(id_map_, threads[t].descriptor.name, id)
           /\ Step(t, [threads[t] EXCEPT !.pc = "reg_unlock", !.id = id])
    /\ UNCHANGED <<registered_descriptors_, mu_, ops>>

\* The lock is released and the caller gets Measure<T>(id).
RegisterReturn(t) ==
    /\ threads[t].pc = "reg_unlock"
    /\ mu_' = [mu_ EXCEPT !.writer = NoThread]
    /\ Step(t, IdleThread(Measure(threads[t].id, threads[t].T)))
    /\ UNCHANGED <<registered_descriptors_, id_map_, ops>>

\* GetIdByName(name): the stored id, or the invalid sentinel for an unknown
\* name.
GetIdByName(map, name) ==
    IF name \in DOMAIN map THEN map[name]
    ELSE CreateMeasureId(0, FALSE, "kDouble")

\* Mutant of GetMeasureByName: the type of the stored id is not looked at.
GetMeasureByNameUntyped(id, T) ==
    IF IdValid(id) THEN Measure(id, T)
    ELSE Measure(CreateMeasureId(0, FALSE, "kDouble"), T)

\* GetMeasureDoubleByName / GetMeasureIntByName: the handle for the id found,
\* the invalid sentinel when the id is invalid or of the other type.
GetMeasureByName(id, T) ==
    IF IdValid(id) /\ IdToType(id) = T THEN Measure(id, T)
    ELSE Measure(CreateMeasureId(0, FALSE, "kDouble"), T)

BeginGetMeasureByName(t, name, T) ==
    /\ threads[t].pc = "idle"
    /\ ops < MaxOps
    /\ ops' = ops + 1
    /\ Step(t, [threads[t] EXCEPT
                  !.pc = "get_lock",
                  !.descriptor = MeasureDescriptor(name, "", "", T),
                  !.T = T])
    /\ UNCHANGED <<registered_descriptors_, id_map_, mu_>>

GetLock(t) ==
    /\ threads[t].pc = "get_lock"
    /\ ReaderLockFree(mu_)
    /\ mu_' = [mu_ EXCEPT !.readers = @ \cup {t}]
    /\ Step(t, [threads[t] EXCEPT !.pc = "get_find"])
    /\ UNCHANGED <<registered_descriptors_, id_map_, ops>>

GetFind(t) ==
    /\ threads[t].pc = "get_find"
    /\ Step(t, [threads[t] EXCEPT
                  !.pc = "get_unlock",
                  !.id = GetIdByName(id_map_, threads[t].descriptor.name)])
    /\ UNCHANGED <<registered_descriptors_, id_map_, mu_, ops>>

GetReturn(t) ==
    /\ threads[t].pc = "get_unlock"
    /\ mu_' = [mu_ EXCEPT !.readers = @ \ {t}]
    /\ Step(t, IdleThread(GetMeasureByName(threads[t].id, threads[t].T)))
    /\ UNCHANGED <<registered_descriptors_, id_map_, ops>>

\* Mutant of GetDescriptor: the validity of the handle is not tested.
GetDescriptorUnchecked(descriptors, measure) ==
    Element(descriptors, IdToIndex(measure.id_))

\* GetDescriptor(Measure<MeasureT> measure), under the reader lock
GetDescriptor(descriptors, measure) ==
    IF ~IsValid(measure) THEN default_descriptor
    ELSE Element(descriptors, IdToIndex(measure.id_))

\* MeasureToIndex(Measure<MeasureT> measure)
MeasureToIndex(measure) == IdToIndex(measure.id_)

\* The handles a caller can hold: what some call returned, or a
\* default-constructed invalid one.
Handles == {threads[u].handle : u \in Threads} \cup {NoMeasure}

BeginGetDescriptor(t, measure) ==
    /\ threads[t].pc = "idle"
    /\ ops < MaxOps
    /\ ops' = ops + 1
    /\ Step(t, [threads[t] EXCEPT !.pc = "desc_lock", !.measure = measure])
    /\ UNCHANGED <<registered_descriptors_, id_map_, mu_>>

DescriptorLock(t) ==
    /\ threads[t].pc = "desc_lock"
    /\ ReaderLockFree(mu_)
    /\ mu_' = [mu_ EXCEPT !.readers = @ \cup {t}]
    /\ Step(t, [threads[t] EXCEPT !.pc = "desc_read"])
    /\ UNCHANGED <<registered_descriptors_, id_map_, ops>>

DescriptorRead(t) ==
    /\ threads[t].pc = "desc_read"
    /\ Step(t, [threads[t] EXCEPT
                  !.pc = "desc_unlock",
                  !.result = GetDescriptor(registered_descriptors_,
                                           threads[t].measure)])
    /\ UNCHANGED <<registered_descriptors_, id_map_, mu_, ops>>

DescriptorReturn(t) ==
    /\ threads[t].pc = "desc_unlock"
    /\ mu_' = [mu_ EXCEPT !.readers = @ \ {t}]
    /\ Step(t, IdleThread(threads[t].handle))
    /\ UNCHANGED <<registered_descriptors_, id_map_, ops>>

\* A registry of its own beside one constructed view that nothing touches.
RegistryInit ==
    /\ aggregation_ = "kSum"
    /\ aggregation_window_ = "kCumulative"
    /\ type_ = TypeForDescriptor(aggregation_, aggregation_window_)
    /\ start_time_ = UnixEpoch
    /\ end_time_ = ConstructedEndTime(start_time_)
    /\ double_data_ = EmptyMap
    /\ int_data_ = EmptyMap
    /\ distribution_data_ = EmptyMap
    /\ interval_data_ = EmptyMap
    /\ adds = EmptyBag
    /\ export_data = NoExport
    /\ RegistryIdle
    /\ CopyIdle
    /\ PackingIdle

RegistryNext ==
    \/ \E t \in Threads, name \in Names, units \in Units,
          description \in Descriptions, T \in MeasureTypes :
          BeginRegister(t, name, units, description, T)
    \/ \E t \in Threads : RegisterLock(t)
    \/ \E t \in Threads : RegisterFind(t)
    \/ \E t \in Threads : RegisterPush(t)
    \/ \E t \in Threads : RegisterStore(t)
    \/ \E t \in Threads : RegisterReturn(t)
    \/ \E t \in Threads, name \in Names, T \in MeasureTypes :
          BeginGetMeasureByName(t, name, T)
    \/ \E t \in Threads : GetLock(t)
    \/ \E t \in Threads : GetFind(t)
    \/ \E t \in Threads : GetReturn(t)
    \/ \E t \in Threads, measure \in Handles : BeginGetDescriptor(t, measure)
    \/ \E t \in Threads : DescriptorLock(t)
    \/ \E t \in Threads : DescriptorRead(t)
    \/ \E t \in Threads : DescriptorReturn(t)

SpecRegistry == RegistryInit /\ [][RegistryNext]_vars

\* ------------------------------------------------- id packing
MaxIndexOnes == 2     \* one bits (or zero bits) of an index that is packed

IndexPositions == 0..(index_bits - 1)

\* The bit sets over IndexPositions with at most k members.
RECURSIVE WithOnes(_)
WithOnes(k) ==
    IF k = 0 THEN {{}}
    ELSE LET P == WithOnes(k - 1)
         IN  P \cup {S \cup {b} : S \in P, b \in IndexPositions}

\* Indices below 2^32: those with few one bits and those with few zero bits.
Indices ==
    WithOnes(MaxIndexOnes) \cup {IndexPositions \ S : S \in WithOnes(MaxIndexOnes)}

\* An index, a validity flag and a type to pack, beside an idle registry.
PackingInit ==
    /\ aggregation_ = "kSum"
    /\ aggregation_window_ = "kCumulative"
    /\ type_ = TypeForDescriptor(aggregation_, aggregation_window_)
    /\ start_time_ = UnixEpoch
    /\ end_time_ = ConstructedEndTime(start_time_)
    /\ double_data_ = EmptyMap
    /\ int_data_ = EmptyMap
    /\ distribution_data_ = EmptyMap
    /\ interval_data_ = EmptyMap
    /\ adds = EmptyBag
    /\ export_data = NoExport
    /\ RegistryIdle
    /\ CopyIdle
    /\ \E index \in Indices, is_valid \in BOOLEAN, type \in MeasureTypes :
          packing = [step |-> "input", index |-> index, is_valid |-> is_valid,
                     type |-> type, id |-> {}, out_index |-> {},
                     out_valid |-> FALSE, out_type |-> "kDouble"]

\* id = CreateMeasureId(index, is_valid, type)
Pack ==
    /\ packing.step = "input"
    /\ packing' = [packing EXCEPT
                     !.step = "packed",
                     !.id = CreateMeasureIdBits(packing.index, packing.is_valid,
                                                packing.type)]
    /\ UNCHANGED <<view_vars, registry_vars, copy_vars>>

\* IdToIndex(id), IdValid(id), IdToType(id)
Unpack ==
    /\ packing.step = "packed"
    /\ packing' = [packing EXCEPT
                     !.step = "unpacked",
                     !.out_index = IndexMask(packing.id),
                     !.out_valid = IdValid(packing.id),
                     !.out_type = IdToType(packing.id)]
    /\ UNCHANGED <<view_vars, registry_vars, copy_vars>>

PackingNext == Pack \/ Unpack

SpecPacking == PackingInit /\ [][PackingNext]_vars

\* ------------------------------------------------- registry claims
\* The name thread t passed to the call it is inside.
NameOf(t) == threads[t].descriptor.name

\* The descriptor list and the name map are left as they are by the step.
RegistryUntouched == UNCHANGED <<registered_descriptors_, id_map_>>

\* C12: a registration that finds its name already in the name map returns
\* the id stored for that name and changes neither the descriptor list nor
\* the name map, from its lookup to its return; and the id stored for a name
\* is never changed by any later step, so the id returned is the one stored
\* at the name's first registration.
C12_RegistrationIdempotent ==
    [][/\ \A n \in DOMAIN id_map_ :
             n \in DOMAIN id_map_' /\ id_map_'[n] = id_map_[n]
       /\ \A t \in Threads :
             /\ (threads[t].pc = "reg_find" /\ NameOf(t) \in DOMAIN id_map_
                    /\ threads'[t] # threads[t])
                  => /\ RegistryUntouched
                     /\ threads'[t].pc = "reg_unlock"
                     /\ threads'[t].id = id_map_[NameOf(t)]
             /\ (threads[t].pc = "reg_unlock" /\ threads[t].found)
                  => /\ RegistryUntouched
                     /\ threads'[t].pc = "idle"
                          => threads'[t].handle.id_ = id_map_[NameOf(t)]]_vars

\* A name registered a second time after another name was registered in
\* between: two descriptors, and the call is about to return the first id.
C12_Witness ==
    \E t \in Threads :
        /\ threads[t].pc = "reg_unlock"
        /\ threads[t].found
        /\ Len(registered_descriptors_) = 2
        /\ threads[t].id = id_map_[NameOf(t)]
        /\ IdToIndex(threads[t].id) = 0

\* C13: whenever a registration is about to return, the id it returns is
\* valid and the descriptor list holds, at the id's index, the descriptor
\* submitted in this call.
C13_HandleDescriptor ==
    \A t \in Threads :
        threads[t].pc = "reg_unlock" =>
            /\ IdValid(threads[t].id)
            /\ Element(registered_descriptors_, IdToIndex(threads[t].id))
                   = threads[t].descriptor

\* C14: whenever a registration is about to return, the type bits of the id
\* it returns say the type of the call: kDouble for RegisterDouble, kInt64
\* for RegisterInt.
C14_HandleType ==
    \A t \in Threads :
        threads[t].pc = "reg_unlock" => IdToType(threads[t].id) = threads[t].T

\* The name is in the name map and the descriptor registered for it has
\* the type T.
RegisteredAs(name, T) ==
    /\ name \in DOMAIN id_map_
    /\ Element(registered_descriptors_, IdToIndex(id_map_[name])).type = T

\* C15: a lookup by name changes neither the descriptor list nor the name
\* map, and the handle it returns is valid exactly when the name is
\* registered with the type of the lookup; a valid handle carries the id
\* stored for the name, an invalid one the sentinel id.
C15_LookupByName ==
    [][\A t \in Threads :
          /\ (threads[t].pc \in {"get_lock", "get_find", "get_unlock"}
                 /\ threads'[t] # threads[t])
               => RegistryUntouched
          /\ (threads[t].pc = "get_unlock" /\ threads'[t].pc = "idle")
               => LET h == threads'[t].handle
                  IN  /\ h.T = threads[t].T
                      /\ IsValid(h) <=> RegisteredAs(NameOf(t), threads[t].T)
                      /\ IsValid(h) => h.id_ = id_map_[NameOf(t)]
                      /\ ~IsValid(h) => h.id_ = NoId]_vars

\* Two lookups of one registered name about to return, one with the type
\* the name was registered with and one with the other type.
C15_Witness ==
    \E t, u \in Threads :
        /\ threads[t].pc = "get_unlock"
        /\ threads[u].pc = "get_unlock"
        /\ NameOf(t) = NameOf(u)
        /\ RegisteredAs(NameOf(t), threads[t].T)
        /\ IsValid(GetMeasureByName(threads[t].id, threads[t].T))
        /\ threads[u].T # threads[t].T
        /\ IdValid(threads[u].id)
        /\ ~IsValid(GetMeasureByName(threads[u].id, threads[u].T))

\* C16: every valid handle a caller holds has an index inside the descriptor
\* list, and whenever GetDescriptor is about to return, its result is the
\* default descriptor for an invalid handle and the descriptor stored at the
\* handle's index for a valid one.
C16_GetDescriptorTotal ==
    /\ \A h \in Handles :
           IsValid(h) => MeasureToIndex(h) < Len(registered_descriptors_)
    /\ \A t \in Threads :
           threads[t].pc = "desc_unlock" =>
               LET m == threads[t].measure
               IN  /\ ~IsValid(m) =>
                          threads[t].result = MeasureDescriptor("", "", "", "kDouble")
                   /\ IsValid(m) =>
                          /\ MeasureToIndex(m) < Len(registered_descriptors_)
                          /\ threads[t].result =
                                 registered_descriptors_[MeasureToIndex(m) + 1]

\* One GetDescriptor about to return for a valid handle and one for an
\* invalid handle, with a descriptor registered.
C16_Witness ==
    \E t, u \in Threads :
        /\ threads[t].pc = "desc_unlock"
        /\ IsValid(threads[t].measure)
        /\ threads[t].result.name \in Names
        /\ threads[u].pc = "desc_unlock"
        /\ ~IsValid(threads[u].measure)
        /\ Len(registered_descriptors_) > 0

\* The threads inside the critical section of a registration / of a lookup.
Writing == {t \in Threads :
               threads[t].pc \in {"reg_find", "reg_push", "reg_store", "reg_unlock"}}
Reading == {t \in Threads :
               threads[t].pc \in {"get_find", "get_unlock", "desc_read", "desc_unlock"}}

\* C17: (a) no lookup is inside its critical section while a registration is
\* inside its own, and at most one registration is; (b) a name has at most
\* one descriptor in the list, and every registration of a name is about to
\* return the one id the name map holds for it; (c) every id in the name map
\* has an index that is present in the descriptor list.
C17_ThreadSafe ==
    /\ Writing # {} => (Reading = {} /\ Cardinality(Writing) = 1)
    /\ \A i, j \in 1..Len(registered_descriptors_) :
           registered_descriptors_[i].name = registered_descriptors_[j].name
               => i = j
    /\ \A t \in Threads :
           threads[t].pc = "reg_unlock" =>
               /\ NameOf(t) \in DOMAIN id_map_
               /\ threads[t].id = id_map_[NameOf(t)]
    /\ \A n \in DOMAIN id_map_ :
           IdToIndex(id_map_[n]) < Len(registered_descriptors_)

\* Two threads inside a registration of the same name at once: one has
\* stored the name and still holds the lock, the other waits for it.
C17_Witness ==
    \E t, u \in Threads :
        /\ threads[t].pc = "reg_unlock"
        /\ ~threads[t].found
        /\ threads[u].pc = "reg_lock"
        /\ NameOf(u) = NameOf(t)
        /\ mu_.writer = t

\* Every id of the name map is valid, indexes a descriptor of the list that
\* carries the map key as its name, and has the type bit of that descriptor;
\* distinct names have distinct ids.
IdMapSound ==
    /\ \A n \in DOMAIN id_map_ :
           LET id == id_map_[n]
           IN  /\ IdValid(id)
               /\ IdToIndex(id) < Len(registered_descriptors_)
               /\ registered_descriptors_[IdToIndex(id) + 1].name = n
               /\ IdToType(id) = registered_descriptors_[IdToIndex(id) + 1].type
    /\ \A n, m \in DOMAIN id_map_ : id_map_[n] = id_map_[m] => n = m

\* The descriptor list keeps what it holds and only gets longer; a name new
\* to the name map gets the index that counts the names stored before it.
IndicesInOrder ==
    /\ Len(registered_descriptors_') >= Len(registered_descriptors_)
    /\ \A i \in 1..Len(registered_descriptors_) :
           registered_descriptors_'[i] = registered_descriptors_[i]
    /\ \A n \in DOMAIN id_map_' \ DOMAIN id_map_ :
           IdToIndex(id_map_'[n]) = Cardinality(DOMAIN id_map_)

\* C21: in every state the ids of the name map are sound (valid, in bounds,
\* naming their own descriptor, typed as it is, distinct for distinct
\* names), and every step keeps the descriptor list's rows, never shortens
\* it, and gives the k-th distinct name the index k-1.
C21_RegistryInvariant == []IdMapSound /\ [][IndicesInOrder]_vars

\* Two names registered, the second as an Int64 measure at index 1.
C21_Witness ==
    /\ Cardinality(DOMAIN id_map_) = 2
    /\ Len(registered_descriptors_) = 2
    /\ \E n \in DOMAIN id_map_ :
           /\ IdToIndex(id_map_[n]) = 1
           /\ IdToType(id_map_[n]) = "kInt64"
           /\ registered_descriptors_[2].name = n

\* C22: an id taken apart gives back the index, the validity flag and the
\* type it was packed from, for every index below 2^32; a packed id has no
\* bit above the type bit; the id packed from index 0, invalid, is 0, is
\* not valid, and differs from the valid id of index 0; and for an index an
\* integer of the checker can hold, the integer forms of the functions
\* agree with the packing.
C22_PackingRoundTrip ==
    /\ ~IdValid({})
    /\ CreateMeasureId(0, FALSE, "kDouble") = {}
    /\ \A type \in MeasureTypes :
           CreateMeasureId(0, TRUE, type) # CreateMeasureId(0, FALSE, "kDouble")
    /\ packing.step \in {"packed", "unpacked"} =>
           /\ \A b \in packing.id : b <= type_bit
           /\ (packing.index = {} /\ packing.is_valid) => packing.id # {}
           /\ (index_bits - 1) \notin packing.index =>
                  /\ IdToIndex(packing.id) = BitsValue(packing.index)
                  /\ CreateMeasureId(BitsValue(packing.index), packing.is_valid,
                                     packing.type) = packing.id
    /\ packing.step = "unpacked" =>
           /\ packing.out_index = packing.index
           /\ packing.out_valid = packing.is_valid
           /\ packing.out_type = packing.type

\* The greatest index, 2^32 - 1, packed as a valid Int64 id and taken apart.
C22_Witness ==
    /\ packing.step = "unpacked"
    /\ packing.index = IndexPositions
    /\ packing.is_valid
    /\ packing.type = "kInt64"
    /\ packing.id = (0..type_bit)

\* ------------------------------------------------- copy and misuse claims
\* The copy has the descriptor and the times of the view.
CopyHeaderEqual ==
    /\ copy_data.aggregation_ = aggregation_
    /\ copy_data.aggregation_window_ = aggregation_window_
    /\ copy_data.type_ = type_
    /\ copy_data.start_time_ = start_time_
    /\ copy_data.end_time_ = end_time_

\* The copy has the rows of the view in the map of its type.
CopyRowsEqual ==
    /\ copy_data.type_ = "kDouble" => copy_data.double_data_ = double_data_
    /\ copy_data.type_ = "kInt64" => copy_data.int_data_ = int_data_
    /\ copy_data.type_ = "kDistribution" =>
           copy_data.distribution_data_ = distribution_data_

\* The copy constructor has written its diagnostic.
CopyRejected == \E i \in 1..Len(cerr) : cerr[i] = CopyDiagnostic

\* C18 as stated: a copy that exists is of a Double, Int64 or Distribution
\* view and equals it; a copy of a StatsObject view writes the diagnostic,
\* aborts the process and yields no object.
C18_CopyOrAbort ==
    /\ copy_data.valid =>
           /\ copy_data.type_ # "kStatsObject"
           /\ CopyHeaderEqual
           /\ CopyRowsEqual
    /\ CopyRejected => (process = "aborted" /\ ~copy_data.valid)

\* C18 amended: a copy of a Double, Int64 or Distribution view equals the
\* view in descriptor, times and rows; a copy of a StatsObject view always
\* writes the diagnostic, and with assertions enabled the process aborts and
\* no object exists; an object of type StatsObject exists only in a build
\* with NDEBUG, and then its map was never constructed.
C18_CopyOrAbortWithAssertions ==
    /\ (copy_data.valid /\ copy_data.type_ # "kStatsObject") =>
           /\ copy_data.constructed
           /\ CopyHeaderEqual
           /\ CopyRowsEqual
    /\ CopyRejected => type_ = "kStatsObject"
    /\ (CopyRejected /\ ~ndebug) => (process = "aborted" /\ ~copy_data.valid)
    /\ (copy_data.valid /\ copy_data.type_ = "kStatsObject") =>
           /\ ndebug
           /\ CopyRejected
           /\ ~copy_data.constructed
           /\ CopyHeaderEqual
    /\ process = "aborted" => ~copy_data.valid

\* A copy of a cumulative Distribution view with two rows, made after its
\* end time moved past its start time.
C18_Witness ==
    /\ copy_data.valid
    /\ copy_data.type_ = "kDistribution"
    /\ Cardinality(DOMAIN copy_data.distribution_data_) = 2
    /\ copy_data.end_time_ > copy_data.start_time_

\* C19 as stated: no snapshot exists of a view whose window is not an
\* interval, and the process is never ended by the snapshot constructor
\* reading a Cumulative view.
C19_SnapshotOnlyOfInterval ==
    /\ export_data.valid => export_data.aggregation_window_ = "kInterval"
    /\ (process = "crashed" /\ aggregation_window_ = "kCumulative") =>
           copy_data # NoCopy

\* The window assertion of the snapshot constructor has failed.
WindowAssertionFailed ==
    /\ process = "aborted"
    /\ ~CopyRejected

\* C19 amended: with assertions enabled no snapshot of a Cumulative view
\* exists and the attempt aborts the process at the window assertion,
\* leaving no snapshot; the window assertion never fails for a view
\* constructed with an Interval window, whose snapshots all carry that
\* window; a snapshot of a Cumulative view exists only with NDEBUG.
C19_SnapshotOnlyOfIntervalWithAssertions ==
    /\ (export_data.valid /\ ~ndebug) =>
           export_data.aggregation_window_ = "kInterval"
    /\ WindowAssertionFailed =>
           /\ ~ndebug
           /\ aggregation_window_ = "kCumulative"
           /\ ~export_data.valid
           /\ cerr = <<AssertionFailed>>
    /\ aggregation_window_ = "kInterval" =>
           /\ ~WindowAssertionFailed
           /\ export_data.valid => export_data.aggregation_window_ = "kInterval"

\* The snapshot constructor was applied to a Cumulative view with two rows
\* in a build with assertions: the process has aborted.
C19_Witness ==
    /\ WindowAssertionFailed
    /\ aggregation_window_ = "kCumulative"
    /\ Cardinality(ActiveKeys) = 2
    /\ ~export_data.valid

\* The maps of a view-shaped record other than the one its type names hold
\* nothing.
OnlyActiveMap(view) ==
    /\ view.type_ # "kDouble" => view.double_data_ = EmptyMap
    /\ view.type_ # "kInt64" => view.int_data_ = EmptyMap
    /\ view.type_ # "kDistribution" => view.distribution_data_ = EmptyMap
    /\ view.type_ # "kStatsObject" => view.interval_data_ = EmptyMap

\* The storage type is the one the table gives for the descriptor, the type
\* of a snapshot follows the aggregation, and the view, its snapshot and its
\* copy hold rows only in the map of their own type.
StorageTypeTable ==
    /\ (aggregation_window_ = "kCumulative" /\ aggregation_ = "kSum")
           => type_ = "kDouble"
    /\ (aggregation_window_ = "kCumulative" /\ aggregation_ = "kCount")
           => type_ = "kInt64"
    /\ (aggregation_window_ = "kCumulative" /\ aggregation_ = "kDistribution")
           => type_ = "kDistribution"
    /\ aggregation_window_ = "kInterval" => type_ = "kStatsObject"
    /\ export_data.valid =>
           /\ export_data.type_ =
                  (IF export_data.aggregation_ = "kDistribution"
                   THEN "kDistribution" ELSE "kDouble")
           /\ export_data.type_ # "kDouble" => export_data.double_data_ = EmptyMap
           /\ export_data.type_ # "kDistribution" =>
                  export_data.distribution_data_ = EmptyMap
    /\ OnlyActiveMap(This)
    /\ (copy_data.valid /\ copy_data.constructed) => OnlyActiveMap(copy_data)

\* No step changes the descriptor or the storage type of the view.
TypeFixed == UNCHANGED <<aggregation_, aggregation_window_, type_>>

\* C20 as stated: the table, the snapshot type and the one-map rule hold in
\* every state, no step changes the storage type, and a snapshot, which is
\* read from interval_data_, exists only of a view whose map that is.
C20_StorageType ==
    /\ [](StorageTypeTable /\ (export_data.valid => type_ = "kStatsObject"))
    /\ [][TypeFixed]_vars

\* C20 amended: as stated, except that a snapshot read from the
\* interval_data_ of a view of another storage type exists in a build with
\* NDEBUG, where the window assertion does not stop the constructor.
C20_StorageTypeWithAssertions ==
    /\ [](/\ StorageTypeTable
          /\ export_data.valid => (type_ = "kStatsObject" \/ ndebug)
          /\ (export_data.valid /\ aggregation_window_ = "kInterval")
                 => type_ = "kStatsObject")
    /\ [][TypeFixed]_vars

\* An Interval view with a Count aggregation, two Adds made, and a snapshot
\* of type kDouble with a row taken of it.
C20_Witness ==
    /\ aggregation_window_ = "kInterval"
    /\ aggregation_ = "kCount"
    /\ BagCardinality(adds) = 2
    /\ export_data.valid
    /\ export_data.type_ = "kDouble"
    /\ export_data.double_data_ # EmptyMap

\* ------------------------------------------------- the history of Adds
AddedTags == {r.tag : r \in BagToSet(adds)}
History(K) == {r \in BagToSet(adds) : r.tag = K}

\* The sum of the values, and the number, of the Adds of the set S of records.
RECURSIVE SumValues(_)
SumValues(S) ==
    IF S = {} THEN 0
    ELSE LET r == CHOOSE x \in S : TRUE
         IN  r.value * CopiesIn(r, adds) + SumValues(S \ {r})

RECURSIVE CountAdds(_)
CountAdds(S) ==
    IF S = {} THEN 0
    ELSE LET r == CHOOSE x \in S : TRUE
         IN  CopiesIn(r, adds) + CountAdds(S \ {r})

\* The Adds for K with a timestamp in the window now - Duration .. now.
InWindow(K, now) ==
    {r \in History(K) : now - Duration <= r.now /\ r.now <= now}

MaxNow(S) == CHOOSE t \in {r.now : r \in S} : \A r \in S : r.now <= t
MinValue(S) == CHOOSE v \in {r.value : r \in S} : \A r \in S : v <= r.value
MaxValue(S) == CHOOSE v \in {r.value : r \in S} : \A r \in S : v >= r.value

\* ------------------------------------------------- claims
\* C1: in a Cumulative Sum view, double_data has exactly one row for each tag
\* ever passed to Add, and the row of tag K is the sum of the values of all
\* Adds made with K, whatever their timestamps.
C1_CumulativeSum ==
    type_ = "kDouble" =>
        /\ DOMAIN double_data_ = AddedTags
        /\ \A K \in AddedTags : double_data_[K] = SumValues(History(K))

C1_Witness ==
    /\ type_ = "kDouble"
    /\ Cardinality(DOMAIN double_data_) = 2
    /\ \E K \in DOMAIN double_data_ :
          /\ double_data_[K] = 15
          /\ Cardinality({r.now : r \in History(K)}) = 2

\* C2: in a Cumulative Count view, int_data[K] is the number of Adds whose tag
\* was K, whatever the values, and no row exists for a tag never added.
C2_CumulativeCount ==
    type_ = "kInt64" =>
        /\ DOMAIN int_data_ = AddedTags
        /\ \A K \in AddedTags : int_data_[K] = CountAdds(History(K))

C2_Witness ==
    /\ type_ = "kInt64"
    /\ Cardinality(DOMAIN int_data_) = 1
    /\ \E K \in DOMAIN int_data_ :
          int_data_[K] = 2 /\ SumValues(History(K)) = 15

\* C3: in a Cumulative Distribution view, distribution_data has one row per tag
\* ever added, and bucket_counts[b] of tag K is the number of values submitted
\* with K that the bucket boundaries classify into bucket b.
C3_CumulativeDistribution ==
    type_ = "kDistribution" =>
        /\ DOMAIN distribution_data_ = AddedTags
        /\ \A K \in AddedTags : \A b \in 0..(num_buckets - 1) :
              distribution_data_[K].bucket_counts_[b] =
                  CountAdds({r \in History(K) : BucketForValue(r.value) = b})

C3_Witness ==
    /\ type_ = "kDistribution"
    /\ Cardinality(DOMAIN distribution_data_) = 2
    /\ \E K \in DOMAIN distribution_data_ :
          /\ distribution_data_[K].bucket_counts_[0] = 1
          /\ distribution_data_[K].bucket_counts_[1] = 1

\* C4: end_time is the greatest `now` passed to any Add so far, and is the
\* start time of the descriptor construction when no Add was made yet.
C4_EndTimeIsMaxNow ==
    end_time_ = IF adds = EmptyBag THEN start_time_
                ELSE MaxNow(BagToSet(adds))

\* C5: end_time >= start_time in the view after construction and any Adds, and
\* in every snapshot the interval-to-export constructor produces.
C5_EndNotBeforeStart ==
    /\ end_time_ >= start_time_
    /\ export_data.valid => export_data.end_time_ >= export_data.start_time_

\* C6: a snapshot of an Interval view taken at `now` has start_time =
\* max(source.start_time, now - duration), end_time = now, and the source's
\* aggregation and aggregation window.
C6_SnapshotTimes ==
    export_data.valid =>
        /\ export_data.start_time_ =
              (IF start_time_ >= export_data.now - Duration
               THEN start_time_ ELSE export_data.now - Duration)
        /\ export_data.end_time_ = export_data.now
        /\ export_data.aggregation_ = aggregation_
        /\ export_data.aggregation_window_ = aggregation_window_

C6_Witness ==
    /\ export_data.valid
    /\ export_data.start_time_ > start_time_
    /\ export_data.end_time_ # end_time_

\* C7: in an Interval Sum or Count view, a snapshot at `now` taken when every
\* Add so far has a timestamp in now - duration .. now exports, for each tag K,
\* the number of Adds made with K (Count) or the sum of their values (Sum).
C7_IntervalSumCount ==
    (/\ export_data.valid
     /\ aggregation_ \in {"kSum", "kCount"}
     /\ \A r \in BagToSet(adds) :
           export_data.now - Duration <= r.now /\ r.now <= export_data.now)
    => /\ DOMAIN export_data.double_data_ = AddedTags
       /\ \A K \in AddedTags :
             export_data.double_data_[K] =
                 IF aggregation_ = "kCount" THEN CountAdds(History(K))
                 ELSE SumValues(History(K))

C7_Witness ==
    /\ export_data.valid
    /\ aggregation_ = "kCount"
    /\ \A r \in BagToSet(adds) :
          export_data.now - Duration <= r.now /\ r.now <= export_data.now
    /\ \E K \in AddedTags :
          /\ export_data.double_data_[K] = 2
          /\ SumValues(History(K)) = 15
          /\ \E r \in History(K) : r.now = export_data.now - Duration

\* C8 as stated: in an Interval Sum or Count view, when the latest Add for tag
\* K has timestamp t, every snapshot at now >= t + duration exports 0 for K.
C8_DecayAtDuration ==
    (export_data.valid /\ aggregation_ \in {"kSum", "kCount"}) =>
        \A K \in AddedTags :
            export_data.now >= MaxNow(History(K)) + Duration
                => export_data.double_data_[K] = 0

\* C8 amended: when the greatest timestamp of the Adds for tag K is t, every
\* snapshot at now > t + duration exports 0 for K; at now = t + duration the
\* Adds made at t are still inside the window.
C8_DecayAfterDuration ==
    (export_data.valid /\ aggregation_ \in {"kSum", "kCount"}) =>
        \A K \in AddedTags :
            export_data.now > MaxNow(History(K)) + Duration
                => export_data.double_data_[K] = 0

C8_Witness ==
    /\ export_data.valid
    /\ aggregation_ = "kSum"
    /\ \E K \in AddedTags :
          /\ export_data.now > MaxNow(History(K)) + Duration
          /\ export_data.double_data_[K] = 0
    /\ \E K \in AddedTags : export_data.double_data_[K] > 0

\* The distribution exported for tag K is the statistics of the Adds in S.
ReportsExactly(d, S) ==
    /\ d.count_ = CountAdds(S)
    /\ d.min_ = Fin(MinValue(S))
    /\ d.max_ = Fin(MaxValue(S))
    /\ \A b \in 0..(num_buckets - 1) :
          d.bucket_counts_[b] = CountAdds({r \in S : BucketForValue(r.value) = b})

\* The distribution of a tag with nothing in the window.
ReportsEmpty(d) ==
    /\ d.count_ = 0
    /\ MeanIs(d, 0)
    /\ SsdIs(d, 0)
    /\ d.sum_ = 0
    /\ d.sum_sq_ = 0
    /\ d.min_ = PosInf
    /\ d.max_ = NegInf
    /\ \A b \in 0..(num_buckets - 1) : d.bucket_counts_[b] = 0

C10_SnapshotReadOnly ==
    [][(export_data'.valid /\ ~export_data.valid) => UNCHANGED source_vars]_vars

C10_Witness ==
    /\ export_data.valid
    /\ \E K \in DOMAIN interval_data_ : interval_data_[K].cur < export_data.now
    /\ end_time_ < export_data.now

\* The rows of a snapshot: the key set of its active map.
ExportRows ==
    IF export_data.type_ = "kDistribution"
    THEN DOMAIN export_data.distribution_data_
    ELSE DOMAIN export_data.double_data_

\* C11: in a StatsObject (Interval) view a row is present from the first Add
\* for its tag on and is never removed: the key set of interval_data is the
\* set of tags ever passed to Add, and every snapshot has exactly one row for
\* each of them, also for tags whose windowed value has decayed to zero.
C11_RowsNeverRemoved ==
    type_ = "kStatsObject" =>
        /\ DOMAIN interval_data_ = AddedTags
        /\ export_data.valid => ExportRows = AddedTags

C11_Witness ==
    /\ type_ = "kStatsObject"
    /\ aggregation_ = "kSum"
    /\ export_data.valid
    /\ Cardinality(AddedTags) = 2
    /\ \E K \in AddedTags : export_data.double_data_[K] = 0
    /\ \E K \in AddedTags : export_data.double_data_[K] > 0

====
